---------------------------- MODULE Spec2Model ----------------------------
(***************************************************************************)
(* A model of HunyuanImageClient (tools/hunyuan_image.py) and the upload   *)
(* backend it uses (image_uploader.py): the upload cache keyed by the      *)
(* canonical path, submit_job's resolution of the reference images,        *)
(* query_job, and the poll loop of generate_image_intern.                  *)
(*                                                                         *)
(* Spec is one client used by one caller.  UploadSpec applies upload_image *)
(* with each of its methods, ThreadSpec runs _upload_local_image in two    *)
(* threads on one client, FairSpec is a single generate call whose steps   *)
(* are all taken, ReadSpec applies MyFileReadTool._run                     *)
(* (tools/my_file_read_tool.py) and ToolSpec HunyuanImageTool._run         *)
(* (tools/custom_tool.py).                                                 *)
(*                                                                         *)
(* Strings the code inspects (reference-image entries, paths, URLs) are    *)
(* sequences of one-character strings, so that str.startswith and          *)
(* Path.resolve are computed, not assumed.  An Optional value is <<>> for  *)
(* None and <<v>> for a value v.                                           *)
(***************************************************************************)
EXTENDS Integers, Sequences, FiniteSets, TLC

\* ------------------------------------------------------------------ bounds
MaxImages == 4     \* longest reference-image list a call is given
MaxPolls == 3      \* largest max_retries a generate call is given
MaxCalls == 2      \* calls made on the one client instance
MaxRequests == 2   \* resolutions each thread asks of a shared client
MaxLines == 4      \* lines of the longest file MyFileReadTool is given
MaxItems == 3      \* most image URLs a job returns, most filenames a run is given
MaxFiles == 2      \* highest number a file of output_dir carries in its name

\* submit_job's docstring: at most 3 reference images
DocumentedMaxImages == 3

\* ----------------------------------------------------------------- strings
HttpPrefix == <<"h", "t", "t", "p", ":", "/", "/">>
HttpsPrefix == <<"h", "t", "t", "p", "s", ":", "/", "/">>

\* str.startswith(prefix)
StartsWith(s, prefix) ==
    /\ Len(s) >= Len(prefix)
    /\ SubSeq(s, 1, Len(prefix)) = prefix

\* the working directory of the process, as path components
Cwd == << <<"w">> >>

RECURSIVE SplitFrom(_, _, _, _)
SplitFrom(s, i, cur, acc) ==
    IF i > Len(s) THEN Append(acc, cur)
    ELSE IF s[i] = "/" THEN SplitFrom(s, i + 1, <<>>, Append(acc, cur))
    ELSE SplitFrom(s, i + 1, Append(cur, s[i]), acc)

\* the components of a path: the text between the "/" separators
SplitPath(s) == SplitFrom(s, 1, <<>>, <<>>)

RECURSIVE NormalizeFrom(_, _, _)
NormalizeFrom(comps, i, acc) ==
    IF i > Len(comps) THEN acc
    ELSE IF comps[i] = <<>> \/ comps[i] = <<".">>
         THEN NormalizeFrom(comps, i + 1, acc)
    ELSE IF comps[i] = <<".", ".">>
         THEN NormalizeFrom(comps, i + 1,
                  IF acc = <<>> THEN acc ELSE SubSeq(acc, 1, Len(acc) - 1))
    ELSE NormalizeFrom(comps, i + 1, Append(acc, comps[i]))

RECURSIVE JoinFrom(_, _)
JoinFrom(comps, i) ==
    IF i > Len(comps) THEN <<>>
    ELSE <<"/">> \o comps[i] \o JoinFrom(comps, i + 1)

\* str(Path(file_path).resolve()): made absolute against the working
\* directory, "." and empty components dropped, ".." folded (no symlinks
\* exist in the modelled file system)
PathResolve(s) ==
    LET comps == IF s # <<>> /\ s[1] = "/" THEN SplitPath(s)
                 ELSE Cwd \o SplitPath(s)
        norm == NormalizeFrom(comps, 1, <<>>)
    IN IF norm = <<>> THEN <<"/">> ELSE JoinFrom(norm, 1)

\* ------------------------------------------------------------------ inputs
UrlEntries == { HttpPrefix \o <<"u">>, HttpsPrefix \o <<"v">> }
LocalEntries == { <<"a">>, <<".", "/", "a">>, <<"b">> }
Entries == UrlEntries \cup LocalEntries

\* the canonical paths an entry can be taken for
AbsPaths == { PathResolve(e) : e \in Entries }

MaxRetriesVals == (-1)..MaxPolls
PollIntervals == {1, 2}

JobIdVals == { <<>>, <<"j1">> }     \* resp.JobId: None or an identifier

\* -------------------------------------------------------- python helpers
\* x or default for an Optional[str]: None and "" are both falsy
OrElseStr(opt, default) ==
    IF opt = <<>> THEN default
    ELSE IF opt[1] = "" THEN default
    ELSE opt[1]

\* x or [] for an Optional[List]: None and [] are both falsy
OrElseList(opt, default) ==
    IF opt = <<>> THEN default
    ELSE IF opt[1] = <<>> THEN default
    ELSE opt[1]

\* x or None for an Optional[str]
OrNoneStr(opt) ==
    IF opt = <<>> THEN <<>>
    ELSE IF opt[1] = "" THEN <<>>
    ELSE opt

\* f"{x}" of an Optional[str]
Fmt(opt) == IF opt = <<>> THEN "None" ELSE opt[1]

\* ----------------------------------------------------------- the state
VARIABLES
    uploaded_urls,  \* self._uploaded_urls: cache key -> URL
    backendCalls,   \* per canonical path: upload_image invocations so far
    putCount,       \* objects written to the bucket so far (names the next key)
    calls,          \* calls completed on this client
    op,             \* the method running: "none", "submit", "query", "generate"
    pc,             \* its position
    images,         \* submit_job: the entries of images the loop has read
    processed,      \* submit_job: processed_images
    request,        \* the request the remote API received in this call, if any
    job_id,         \* the job identifier submit_job returned / query_job is given
    max_retries,    \* generate_image_intern: max_retries
    poll_interval,  \* generate_image_intern: poll_interval
    i,              \* generate_image_intern: loop index of range(max_retries)
    result,         \* the last ImageGenerationResult query_job returned, if any
    polls,          \* query_job calls made by this call
    sleeps,         \* time.sleep calls made by this call
    slept,          \* seconds slept by this call
    pendings,       \* polls of this call the remote answered with a status
                    \* code that was neither "4" nor "5"
    remote,         \* what the remote API last answered in this call: to the
                    \* submission and to the status query
    resolved,       \* per canonical path: the URL of its first successful
                    \* resolution on this client
    okUploads,      \* per canonical path: successful uploads so far
    outcome,        \* how the call ended: returned value or raised message
    ev,             \* the last resolution of a reference image in submit_job
    lastUpload,     \* the last upload_image call of _upload_local_image in
                    \* this call: what it met and the UploadResult it returned
    up,             \* a direct call of upload_image: its arguments, what it
                    \* met and how it ended
    th,             \* per thread sharing one client: its position in
                    \* _upload_local_image
    fr,             \* a run of MyFileReadTool: its arguments, the file and
                    \* what it returned
    tool,           \* a run of HunyuanImageTool: its arguments, what the
                    \* generation and the downloads gave and what it returned
    sv              \* a call of save_image_from_url: its arguments, the
                    \* files of output_dir, and its position in the search

clientVars == <<uploaded_urls, backendCalls, putCount, resolved, okUploads>>
submitVars == <<images, processed, request>>
pollVars == <<max_retries, poll_interval, i, result, polls, sleeps, slept, pendings>>
vars == <<uploaded_urls, backendCalls, putCount, calls, op, pc, images,
          processed, request, job_id, max_retries, poll_interval, i,
          result, polls, sleeps, slept, pendings, remote, resolved, okUploads,
          outcome, ev, lastUpload, up, th, fr, tool, sv>>

\* the state of the other entry points of the repository, which the methods
\* of HunyuanImageClient leave alone
auxVars == <<up, th, fr, tool, sv>>
\* ------------------------------------------------------- image_uploader
UploadResult(success, url, error) ==
    [success |-> success, url |-> url, delete_url |-> <<>>, error |-> error]

ErrNoSdk == <<"cos-sdk-not-installed">>
ErrMissing(file_path) == <<"file-not-found: ">> \o file_path
ErrPut == <<"upload-failed: ", "put_object error">>

\* the object key: hunyuan_images/<timestamp>_<unique id><suffix>, fresh for
\* every object written
CosKey(n) == <<"k">> \o <<ToString(n)>>

CosUrl(key) == HttpsPrefix \o <<"c", "o", "s", "/">> \o key

\* an uploader whose failures carry no error text
CosUploadBare(file_path, exists, sdk, putOk, n) ==
    IF sdk /\ exists /\ putOk
    THEN UploadResult(TRUE, <<CosUrl(CosKey(n))>>, <<>>)
    ELSE UploadResult(FALSE, <<>>, <<>>)

\* TencentCOSUploader.upload: sdk says whether the COS SDK imports, putOk
\* whether put_object succeeds, n numbers the object
CosUpload(file_path, exists, sdk, putOk, n) ==
    IF ~sdk THEN UploadResult(FALSE, <<>>, <<ErrNoSdk>>)
    ELSE IF ~exists THEN UploadResult(FALSE, <<>>, <<ErrMissing(file_path)>>)
    ELSE IF ~putOk THEN UploadResult(FALSE, <<>>, <<ErrPut>>)
    ELSE UploadResult(TRUE, <<CosUrl(CosKey(n))>>, <<>>)

\* upload_image(file_path, method="cos", cos_config={...}): the resolver
\* always passes a non-empty cos_config
upload_image(file_path, exists, sdk, putOk, n) ==
    CosUpload(file_path, exists, sdk, putOk, n)

\* a field of a JSON answer: the key may be missing, its value may be null
\* (val = <<>>), the empty string (val = << <<>> >>) or a text
JMissing == [key |-> FALSE, val |-> <<>>]
JNull == [key |-> TRUE, val |-> <<>>]
JText(t) == [key |-> TRUE, val |-> <<t>>]

\* dict.get(key, default): the default only when the key is missing
JsonGet(field, default) == IF field.key THEN field.val ELSE <<default>>

HostedUrl == HttpsPrefix \o <<"s">>
JUrls == { JMissing, JNull, JText(<<>>), JText(HostedUrl) }
JMessages == { JMissing, JNull, JText(<<>>), JText(<<"Upload file count limit">>) }

\* what response.json() gives: success, code, data.url, images, the message
\* (SM.MS: message; ImgBB: error.message) and the kind of the error field
\* (ImgBB only: missing, a text, an object)
SmMsJson == [success : BOOLEAN, code : {"image_repeated", "invalid_source"},
             url : JUrls, images : JUrls, message : JMessages,
             error : {"missing"}]
ImgBBJson == [success : BOOLEAN, code : {"invalid_source"}, url : JUrls,
              images : {JMissing}, message : JMessages,
              error : {"missing", "text", "object"}]
NoJson == [success |-> FALSE, code |-> "invalid_source", url |-> JMissing,
           images |-> JMissing, message |-> JMissing, error |-> "missing"]

\* what requests.post and response.json() do: answer, time out, fail with a
\* RequestException, or fail with another exception
NetOutcomes == {"ok", "timeout", "request_error", "error"}

ErrTooBig == <<"file-too-big">>
ErrTimeout == <<"upload-timeout">>
ErrNetwork == <<"network-error: ", "RequestException">>
ErrOther == <<"upload-failed: ", "Exception">>
ErrRepeated == <<"image-exists">>
ErrSmMsDefault == <<"upload-failed-unknown">>
ErrImgBBDefault == <<"upload-failed">>
ErrNoApiKey == <<"imgbb-needs-api_key">>
ErrNoCosConfig == <<"cos-needs-cos_config">>
ErrMethod(method) == <<"unsupported-method: ", method>>

\* the three except clauses shared by SmMsUploader.upload and
\* ImgBBUploader.upload
NetFailure(net) ==
    IF net = "timeout" THEN UploadResult(FALSE, <<>>, <<ErrTimeout>>)
    ELSE IF net = "request_error" THEN UploadResult(FALSE, <<>>, <<ErrNetwork>>)
    ELSE UploadResult(FALSE, <<>>, <<ErrOther>>)

\* SmMsUploader.upload: tooBig says whether the file exceeds 5 MB
SmMsUpload(file_path, exists, tooBig, net, data) ==
    IF ~exists THEN UploadResult(FALSE, <<>>, <<ErrMissing(file_path)>>)
    ELSE IF tooBig THEN UploadResult(FALSE, <<>>, <<ErrTooBig>>)
    ELSE IF net # "ok" THEN NetFailure(net)
    ELSE IF data.success
    THEN IF ~data.url.key THEN NetFailure("error")
         ELSE UploadResult(TRUE, data.url.val, <<>>)
    ELSE IF data.code = "image_repeated"
    THEN IF ~data.images.key THEN NetFailure("error")
         ELSE UploadResult(TRUE, data.images.val, <<ErrRepeated>>)
    ELSE UploadResult(FALSE, <<>>, JsonGet(data.message, ErrSmMsDefault))

\* ImgBBUploader.upload
ImgBBUpload(file_path, exists, net, data) ==
    IF ~exists THEN UploadResult(FALSE, <<>>, <<ErrMissing(file_path)>>)
    ELSE IF net # "ok" THEN NetFailure(net)
    ELSE IF data.success
    THEN IF ~data.url.key THEN NetFailure("error")
         ELSE UploadResult(TRUE, data.url.val, <<>>)
    ELSE IF data.error = "missing" THEN UploadResult(FALSE, <<>>, <<ErrImgBBDefault>>)
    ELSE IF data.error = "text" THEN NetFailure("error")
    ELSE UploadResult(FALSE, <<>>, JsonGet(data.message, ErrImgBBDefault))

\* what a call of upload_image gives its caller
UploadReturned(res) == [kind |-> "result", res |-> res, exc |-> ""]
UploadRaised(exc) == [kind |-> "raise", res |-> UploadResult(FALSE, <<>>, <<>>), exc |-> exc]

\* the arguments of upload_image: api_key is None, "" or a key; cos_config is
\* None, {}, a dict lacking one of the four keys, or a complete dict
ApiKeys == {<<>>, <<"">>, <<"key">>}
CosConfigs == {"none", "empty", "partial", "full"}

\* what a call of upload_image meets: the file, the network, the answer, the
\* COS SDK
Met(exists, tooBig, net, data, sdk, putOk) ==
    [exists |-> exists, tooBig |-> tooBig, net |-> net, data |-> data,
     sdk |-> sdk, putOk |-> putOk]

\* upload_image(file_path, method, api_key, cos_config)
UploadImage(file_path, method, api_key, cos_config, met) ==
    IF method = "smms"
    THEN UploadReturned(SmMsUpload(file_path, met.exists, met.tooBig, met.net, met.data))
    ELSE IF method = "imgbb"
    THEN IF api_key = <<>> \/ api_key = <<"">>
         THEN UploadReturned(UploadResult(FALSE, <<>>, <<ErrNoApiKey>>))
         ELSE UploadReturned(ImgBBUpload(file_path, met.exists, met.net, met.data))
    ELSE IF method = "cos"
    THEN IF cos_config \in {"none", "empty"}
         THEN UploadReturned(UploadResult(FALSE, <<>>, <<ErrNoCosConfig>>))
         ELSE IF cos_config = "partial" THEN UploadRaised("KeyError")
         ELSE UploadReturned(CosUpload(file_path, met.exists, met.sdk, met.putOk, 1))
    ELSE UploadReturned(UploadResult(FALSE, <<>>, <<ErrMethod(method)>>))

\* ------------------------------------------------- the remote job API
\* TencentCloudSDKException(code, message)
SdkErrors == { [code |-> "LimitExceeded", message |-> "too many images"],
               [code |-> "ClientNetworkError", message |-> "timed out"] }

\* what SubmitTextToImageJob does with a request: a response carrying JobId,
\* or an SDK exception
SubmitReplies ==
    { [ok |-> TRUE, JobId |-> j, err |-> <<>>] : j \in JobIdVals }
    \cup { [ok |-> FALSE, JobId |-> <<>>, err |-> <<e>>] : e \in SdkErrors }

\* the responses of QueryTextToImageJob: every field is optional in the SDK's
\* response model
PendingResponses ==
    { [JobStatusCode |-> c, ResultImage |-> <<>>,
       JobErrorCode |-> <<>>, JobErrorMsg |-> <<>>] :
        c \in { <<>>, <<"">>, <<"1">>, <<"2">>, <<"3">>, <<"9">> } }
CompletedResponses ==
    { [JobStatusCode |-> <<"5">>, ResultImage |-> r,
       JobErrorCode |-> <<>>, JobErrorMsg |-> <<>>] :
        r \in { <<>>, << <<>> >>, << <<"img1">> >>, << <<"img1", "img2">> >> } }
FailedResponses ==
    { [JobStatusCode |-> <<"4">>, ResultImage |-> <<>>,
       JobErrorCode |-> e[1], JobErrorMsg |-> e[2]] :
        e \in { << <<>>, <<>> >>, << <<"">>, <<"">> >>,
                << <<"E1">>, <<"boom">> >>, << <<"E2">>, <<>> >> } }
QueryResponses == PendingResponses \cup CompletedResponses \cup FailedResponses

QueryReplies ==
    { [ok |-> TRUE, resp |-> <<r>>, err |-> <<>>] : r \in QueryResponses }
    \cup { [ok |-> FALSE, resp |-> <<>>, err |-> <<e>>] : e \in SdkErrors }

\* ------------------------------------------------ ImageGenerationResult
is_completed(r) == r.status_code = "5"
is_failed(r) == r.status_code = "4"
is_processing(r) == r.status_code = "2"
is_waiting(r) == r.status_code = "1"

\* ---------------------------------------------------- HunyuanImageClient
\* the messages of the exceptions the client raises: a label for the fixed
\* text of the f-string, then its interpolated parts
\* a failure message that loses the error of the UploadResult
UploadFailedMsgNoError(error) == <<"upload-failed: ", "no-url">>
UploadFailedMsg(error) ==
    <<"upload-failed: ">> \o OrElseList(error, <<"no-url">>)
\* a failure message that loses the error code
SubmitFailedMsgNoCode(e) == <<"submit-failed: ", e.message>>
SubmitFailedMsg(e) == <<"submit-failed: ", e.code, " - ", e.message>>
\* a failure message that loses the error code
QueryFailedMsgNoCode(e) == <<"query-failed: ", e.message>>
QueryFailedMsg(e) == <<"query-failed: ", e.code, " - ", e.message>>
\* a failure message that loses the error code
JobFailedMsgNoCode(r) == <<"job-failed: ", Fmt(r.error_msg), " - ", Fmt(r.error_msg)>>
JobFailedMsg(r) == <<"job-failed: ", Fmt(r.error_code), " - ", Fmt(r.error_msg)>>
TimeoutMsg(jid) == <<"wait-timeout, JobId: ", jid>>

Returned(jid, res) == [kind |-> "return", job |-> jid, result |-> res, msg |-> <<>>]
\* every failure is raised as a plain Exception carrying a message
Raised(m) == [kind |-> "raise", job |-> <<>>, result |-> <<>>, msg |-> m]
NoOutcome == [kind |-> "none", job |-> <<>>, result |-> <<>>, msg |-> <<>>]

\* a URL test that knows only the http:// prefix
IsUrlHttpOnly(path) == StartsWith(path, HttpPrefix)

_is_url(path) == StartsWith(path, HttpPrefix) \/ StartsWith(path, HttpsPrefix)

\* the cache keyed by the path as spelled
CacheKeyRaw(file_path) == file_path

\* _upload_local_image: the cache key of a path
CacheKey(file_path) == PathResolve(file_path)

\* the URL returned without being stored
CacheStoreNone(cache, key, url) == cache

\* a store with key and value exchanged
CacheStoreSwapped(cache, key, url) ==
    [k \in DOMAIN cache \cup {url} |-> IF k = url THEN key ELSE cache[k]]

\* a store that files the URL under every path not yet cached
CacheStoreAll(cache, key, url) ==
    [k \in AbsPaths |-> IF k # key /\ k \in DOMAIN cache THEN cache[k] ELSE url]

\* a store that forgets every other entry
CacheStoreOnly(cache, key, url) == [k \in {key} |-> url]

\* _upload_local_image: the cache after a successful upload
CacheStore(cache, key, url) ==
    [k \in DOMAIN cache \cup {key} |-> IF k = key THEN url ELSE cache[k]]

\* _upload_local_image: an upload is rejected when the backend reports
\* failure or gives no URL
UploadRejected(res) == ~res.success \/ res.url = <<>> \/ res.url = << <<>> >>

\* the record of one resolution: the entry, the URL it gave (if any), the
\* upload_image invocations it made, the URL the path had resolved to before
\* (if any), and whether it left the cache as it was
NoEv == [kind |-> "none", entry |-> <<>>, url |-> <<>>, backend |-> 0,
         before |-> <<>>, cacheSame |-> TRUE, error |-> <<>>]
Ev(kind, entry, url, backend, before, cacheSame, error) ==
    [kind |-> kind, entry |-> entry, url |-> url, backend |-> backend,
     before |-> before, cacheSame |-> cacheSame, error |-> error]

NoRemote == [submit |-> <<>>, resp |-> <<>>]

\* submit_job, "if images:": a None or empty list adds no Images to the body
HasImages(imgs) == imgs # <<>>

\* the URL put in front of the list
AppendProcessedFront(list, x) == <<x>> \o list

\* submit_job: processed_images.append(x)
AppendProcessed(list, x) == Append(list, x)

\* the images sent cut to the documented limit
BodyImagesTruncated(imgs, list) ==
    IF imgs # <<>>
    THEN <<SubSeq(list, 1, IF Len(list) < DocumentedMaxImages THEN Len(list)
                          ELSE DocumentedMaxImages)>>
    ELSE <<>>

\* submit_job: body["Images"], present only when images were given
BodyImages(imgs, list) == IF HasImages(imgs) THEN <<list>> ELSE <<>>

\* a result that loses the response's image list
MkResultNoImages(jid, resp) ==
    [job_id |-> jid,
     status_code |-> OrElseStr(resp.JobStatusCode, ""),
     image_urls |-> <<>>,
     error_code |-> OrNoneStr(resp.JobErrorCode),
     error_msg |-> OrNoneStr(resp.JobErrorMsg)]

\* query_job: the ImageGenerationResult built from a response (the fields
\* copied through untouched - status_msg, result_details, revised_prompt,
\* request_id - are left out)
MkResult(jid, resp) ==
    [job_id |-> jid,
     status_code |-> OrElseStr(resp.JobStatusCode, ""),
     image_urls |-> OrElseList(resp.ResultImage, <<>>),
     error_code |-> OrNoneStr(resp.JobErrorCode),
     error_msg |-> OrNoneStr(resp.JobErrorMsg)]

\* a loop that never sees completion
LoopDecisionNoReturn(r) == IF is_failed(r) THEN "raise" ELSE "sleep"

\* a loop that takes every code but "1" and "2" for a failure
LoopDecisionStrict(r) ==
    IF is_completed(r) THEN "return"
    ELSE IF is_waiting(r) \/ is_processing(r) THEN "sleep"
    ELSE "raise"

\* a loop that hands a failed result back to the caller
LoopDecisionReturnsFailed(r) ==
    IF is_completed(r) \/ is_failed(r) THEN "return" ELSE "sleep"

\* generate_image_intern: what one loop iteration does with a result
LoopDecision(r) ==
    IF is_completed(r) THEN "return"
    ELSE IF is_failed(r) THEN "raise"
    ELSE "sleep"

\* a loop that runs one iteration too many
LoopContinuesOffByOne(k, n) == k <= n

\* a loop that polls once before it tests its bound
LoopContinuesAtLeastOnce(k, n) == k < n \/ k = 0

\* a loop that stops before the last permitted poll
LoopContinuesOneFewer(k, n) == k < n - 1

\* a loop that takes a negative bound for its absolute value
LoopContinuesAbs(k, n) == k < (IF n < 0 THEN 0 - n ELSE n)

\* generate_image_intern: range(max_retries) has another iteration
LoopContinues(k, n) == k < n

\* ------------------------------------------------------------- the calls
\* The caller's list of reference images is drawn entry by entry as submit_job's
\* loop reads it: images holds the entries read so far, and the list ends where
\* the request is sent.  The poll parameters of generate_image_intern are drawn
\* where the loop first reads them.  The file system and the upload backend are
\* outside the program: whether the file exists, whether the COS SDK imports and
\* whether put_object succeeds are drawn at each upload.
\* the threads that share one client
Threads == {1, 2}

\* a thread outside _upload_local_image, n resolutions behind it
IdleThread(n) == [pc |-> "idle", img |-> <<>>, res |-> <<>>, ret |-> <<>>, n |-> n]

Init ==
    /\ uploaded_urls = <<>>
    /\ backendCalls = [p \in AbsPaths |-> 0]
    /\ putCount = 0
    /\ calls = 0
    /\ op = "none"
    /\ pc = "idle"
    /\ images = <<>>
    /\ processed = <<>>
    /\ request = <<>>
    /\ job_id = ""
    /\ max_retries = 0
    /\ poll_interval = 0
    /\ i = 0
    /\ result = <<>>
    /\ polls = 0
    /\ sleeps = 0
    /\ slept = 0
    /\ pendings = 0
    /\ remote = NoRemote
    /\ resolved = [p \in AbsPaths |-> <<>>]
    /\ okUploads = [p \in AbsPaths |-> 0]
    /\ outcome = NoOutcome
    /\ ev = NoEv
    /\ lastUpload = <<>>
    /\ up = <<>>
    /\ th = [t \in Threads |-> IdleThread(0)]
    /\ fr = <<>>
    /\ tool = <<>>
    /\ sv = <<>>

\* a caller invokes submit_job; given says whether its images are a non-empty
\* list ("if images:")
CallSubmit(given) ==
    /\ pc = "idle"
    /\ calls < MaxCalls
    /\ op' = "submit"
    /\ pc' = IF given THEN "resolve" ELSE "send"
    /\ UNCHANGED <<clientVars, calls, submitVars, job_id, pollVars, remote,
                   outcome, ev>>
    /\ UNCHANGED <<lastUpload, auxVars>>

\* a caller invokes generate_image_intern, which starts by calling submit_job
CallGenerate(given) ==
    /\ pc = "idle"
    /\ calls < MaxCalls
    /\ op' = "generate"
    /\ pc' = IF given THEN "resolve" ELSE "send"
    /\ UNCHANGED <<clientVars, calls, submitVars, job_id, pollVars, remote,
                   outcome, ev>>
    /\ UNCHANGED <<lastUpload, auxVars>>

\* submit_job's loop, the next entry is a URL: used as it is
ResolveUrl(img) ==
    /\ pc = "resolve"
    /\ Len(images) < MaxImages
    /\ _is_url(img)
    /\ images' = Append(images, img)
    /\ processed' = AppendProcessed(processed, img)
    /\ ev' = Ev("url", img, <<img>>, 0, <<>>, TRUE, <<>>)
    /\ UNCHANGED <<clientVars, calls, op, pc, request, job_id, pollVars, remote,
                   outcome>>
    /\ UNCHANGED <<lastUpload, auxVars>>

\* submit_job's loop, the next entry is a local path that _upload_local_image
\* finds in the cache
ResolveCached(img) ==
    /\ pc = "resolve"
    /\ Len(images) < MaxImages
    /\ ~_is_url(img)
    /\ CacheKey(img) \in DOMAIN uploaded_urls
    /\ images' = Append(images, img)
    /\ processed' = AppendProcessed(processed, uploaded_urls[CacheKey(img)])
    /\ ev' = Ev("hit", img, <<uploaded_urls[CacheKey(img)]>>, 0,
                resolved[PathResolve(img)], TRUE, <<>>)
    /\ resolved' = [resolved EXCEPT ![PathResolve(img)] =
                        IF @ = <<>> THEN <<uploaded_urls[CacheKey(img)]>> ELSE @]
    /\ UNCHANGED <<uploaded_urls, backendCalls, putCount, okUploads, calls, op,
                   pc, request, job_id, pollVars, remote, outcome>>
    /\ UNCHANGED <<lastUpload, auxVars>>

\* submit_job's loop, the next entry is a local path not in the cache:
\* _upload_local_image calls upload_image, then caches and returns the URL, or
\* raises
ResolveUpload(img, exists, sdk, putOk) ==
    /\ pc = "resolve"
    /\ Len(images) < MaxImages
    /\ ~_is_url(img)
    /\ CacheKey(img) \notin DOMAIN uploaded_urls
    /\ images' = Append(images, img)
    /\ LET res == upload_image(img, exists, sdk, putOk, putCount + 1) IN
        /\ backendCalls' = [backendCalls EXCEPT ![PathResolve(img)] = @ + 1]
        /\ putCount' = IF res.success THEN putCount + 1 ELSE putCount
        /\ okUploads' = IF res.success
                        THEN [okUploads EXCEPT ![PathResolve(img)] = @ + 1]
                        ELSE okUploads
        /\ IF UploadRejected(res)
           THEN /\ outcome' = Raised(UploadFailedMsg(res.error))
                /\ pc' = "done"
                /\ ev' = Ev("failed", img, <<>>, 1, resolved[PathResolve(img)],
                            TRUE, res.error)
                /\ UNCHANGED <<uploaded_urls, processed, resolved>>
           ELSE /\ uploaded_urls' = CacheStore(uploaded_urls, CacheKey(img), res.url[1])
                /\ processed' = AppendProcessed(processed, res.url[1])
                /\ ev' = Ev("uploaded", img, res.url, 1, resolved[PathResolve(img)],
                            uploaded_urls' = uploaded_urls, <<>>)
                /\ resolved' = [resolved EXCEPT ![PathResolve(img)] =
                                    IF @ = <<>> THEN res.url ELSE @]
                /\ UNCHANGED <<outcome, pc>>
    /\ UNCHANGED <<calls, op, request, job_id, pollVars, remote>>
    /\ lastUpload' = <<[exists |-> exists, sdk |-> sdk, putOk |-> putOk,
                        before |-> backendCalls[PathResolve(img)],
                        res |-> upload_image(img, exists, sdk, putOk, putCount + 1)]>>
    /\ UNCHANGED auxVars

\* submit_job, after the loop (the list has no further entry): the request is
\* sent; the job identifier is returned or the SDK's exception is re-raised
SendSubmit(reply) ==
    /\ \/ pc = "send"
       \/ pc = "resolve" /\ HasImages(images)
    /\ request' = <<[Images |-> BodyImages(images, processed)]>>
    /\ remote' = [remote EXCEPT !.submit = <<reply>>]
    /\ IF reply.ok
       THEN /\ job_id' = OrElseStr(reply.JobId, "")
            /\ IF op = "submit"
               THEN /\ outcome' = Returned(<<OrElseStr(reply.JobId, "")>>, <<>>)
                    /\ pc' = "done"
               ELSE /\ pc' = "submitted"
                    /\ UNCHANGED outcome
       ELSE /\ outcome' = Raised(SubmitFailedMsg(reply.err[1]))
            /\ pc' = "done"
            /\ UNCHANGED job_id
    /\ UNCHANGED <<clientVars, calls, op, images, processed, pollVars, ev>>
    /\ UNCHANGED <<lastUpload, auxVars>>

\* generate_image_intern: submit_job has returned and its frame is gone; the
\* loop over range(max_retries) is entered
GenStart(pi, mr) ==
    /\ pc = "submitted"
    /\ poll_interval' = pi
    /\ max_retries' = mr
    /\ i' = 0
    /\ images' = <<>>
    /\ processed' = <<>>
    /\ request' = <<>>
    /\ ev' = NoEv
    /\ pc' = "poll"
    /\ UNCHANGED <<clientVars, calls, op, job_id, result, polls, sleeps, slept,
                   pendings, remote, outcome>>
    /\ lastUpload' = <<>>
    /\ UNCHANGED auxVars

\* the status code of a response, as the remote API states it
RemoteStatus(resp) == IF resp.JobStatusCode = <<>> THEN "" ELSE resp.JobStatusCode[1]

\* one iteration of generate_image_intern's loop: query_job, then return the
\* completed result, raise on a failed one, or sleep poll_interval
GenPoll(reply) ==
    /\ pc = "poll"
    /\ LoopContinues(i, max_retries)
    /\ polls' = polls + 1
    /\ IF ~reply.ok
       THEN /\ outcome' = Raised(QueryFailedMsg(reply.err[1]))
            /\ pc' = "done"
            /\ remote' = [remote EXCEPT !.resp = <<>>]
            /\ UNCHANGED <<result, pendings, i, sleeps, slept>>
       ELSE LET r == MkResult(job_id, reply.resp[1])
                d == LoopDecision(r) IN
            /\ result' = <<r>>
            /\ remote' = [remote EXCEPT !.resp = reply.resp]
            /\ pendings' = IF RemoteStatus(reply.resp[1]) \in {"4", "5"}
                           THEN pendings ELSE pendings + 1
            /\ IF d = "return"
               THEN /\ outcome' = Returned(<<>>, <<r>>)
                    /\ pc' = "done"
                    /\ UNCHANGED <<i, sleeps, slept>>
               ELSE IF d = "raise"
               THEN /\ outcome' = Raised(JobFailedMsg(r))
                    /\ pc' = "done"
                    /\ UNCHANGED <<i, sleeps, slept>>
               ELSE /\ sleeps' = sleeps + 1
                    /\ slept' = slept + poll_interval
                    /\ i' = i + 1
                    /\ UNCHANGED <<outcome, pc>>
    /\ UNCHANGED <<clientVars, calls, op, submitVars, job_id, max_retries,
                   poll_interval, ev>>
    /\ UNCHANGED <<lastUpload, auxVars>>

\* generate_image_intern, the loop is exhausted: the timeout is raised
GenTimeout ==
    /\ pc = "poll"
    /\ ~LoopContinues(i, max_retries)
    /\ outcome' = Raised(TimeoutMsg(job_id))
    /\ pc' = "done"
    /\ UNCHANGED <<clientVars, calls, op, submitVars, job_id, pollVars, remote,
                   ev>>
    /\ UNCHANGED <<lastUpload, auxVars>>

\* a caller invokes query_job(jid): one status query, its result returned or
\* the SDK's exception re-raised
Query(jid, reply) ==
    /\ pc = "idle"
    /\ calls < MaxCalls
    /\ op' = "query"
    /\ job_id' = jid
    /\ polls' = polls + 1
    /\ remote' = [remote EXCEPT !.resp = reply.resp]
    /\ IF reply.ok
       THEN /\ result' = <<MkResult(jid, reply.resp[1])>>
            /\ outcome' = Returned(<<>>, <<MkResult(jid, reply.resp[1])>>)
       ELSE /\ outcome' = Raised(QueryFailedMsg(reply.err[1]))
            /\ UNCHANGED result
    /\ pc' = "done"
    /\ UNCHANGED <<clientVars, calls, submitVars, max_retries, poll_interval,
                   i, sleeps, slept, pendings, ev>>
    /\ UNCHANGED <<lastUpload, auxVars>>

\* the call has returned or raised: its frame is gone, the client remains
Finish ==
    /\ pc = "done"
    /\ calls' = calls + 1
    /\ op' = "none"
    /\ pc' = "idle"
    /\ images' = <<>>
    /\ processed' = <<>>
    /\ request' = <<>>
    /\ job_id' = ""
    /\ max_retries' = 0
    /\ poll_interval' = 0
    /\ i' = 0
    /\ result' = <<>>
    /\ polls' = 0
    /\ sleeps' = 0
    /\ slept' = 0
    /\ pendings' = 0
    /\ remote' = NoRemote
    /\ outcome' = NoOutcome
    /\ ev' = NoEv
    /\ UNCHANGED clientVars
    /\ lastUpload' = <<>>
    /\ UNCHANGED auxVars

Next ==
    \/ \E given \in BOOLEAN : CallSubmit(given)
    \/ \E given \in BOOLEAN : CallGenerate(given)
    \/ \E img \in Entries : ResolveUrl(img)
    \/ \E img \in Entries : ResolveCached(img)
    \/ \E img \in Entries, exists \in BOOLEAN, sdk \in BOOLEAN, putOk \in BOOLEAN :
           ResolveUpload(img, exists, sdk, putOk)
    \/ \E reply \in SubmitReplies : SendSubmit(reply)
    \/ \E pi \in PollIntervals, mr \in MaxRetriesVals : GenStart(pi, mr)
    \/ \E reply \in QueryReplies : GenPoll(reply)
    \/ GenTimeout
    \/ \E jid \in {"", "j1"}, reply \in QueryReplies : Query(jid, reply)
    \/ Finish

Spec == Init /\ [][Next]_vars

\* the steps of a running submit_job or generate_image_intern call
CallStep ==
    \/ \E img \in Entries : ResolveUrl(img)
    \/ \E img \in Entries : ResolveCached(img)
    \/ \E img \in Entries, exists \in BOOLEAN, sdk \in BOOLEAN, putOk \in BOOLEAN :
           ResolveUpload(img, exists, sdk, putOk)
    \/ \E reply \in SubmitReplies : SendSubmit(reply)
    \/ \E pi \in PollIntervals, mr \in MaxRetriesVals : GenStart(pi, mr)
    \/ \E reply \in QueryReplies : GenPoll(reply)
    \/ GenTimeout

\* one generate_image_intern call on a new client, as generate_image makes
\* it
GenerateNext ==
    \/ \E given \in BOOLEAN : CallGenerate(given)
    \/ CallStep

\* every call the running method makes returns (upload_image, the two remote
\* calls, time.sleep), so the method takes its next step
FairSpec == Init /\ [][GenerateNext]_vars /\ WF_vars(CallStep)

\* ------------------------------------------- upload_image, called directly
\* the state of HunyuanImageClient, which upload_image leaves alone
hunyuanVars == <<uploaded_urls, backendCalls, putCount, calls, op, pc, images,
                 processed, request, job_id, max_retries, poll_interval, i,
                 result, polls, sleeps, slept, pendings, remote, resolved,
                 okUploads, outcome, ev, lastUpload>>

UploadCall(file_path, method, api_key, cos_config, met) ==
    /\ up = <<>>
    /\ up' = <<[file_path |-> file_path, method |-> method, api_key |-> api_key,
                cos_config |-> cos_config, met |-> met,
                out |-> UploadImage(file_path, method, api_key, cos_config, met)]>>
    /\ UNCHANGED <<hunyuanVars, th, fr, tool, sv>>

\* upload_image(file_path, method="smms")
CallSmMs(file_path, exists, tooBig, net, data) ==
    UploadCall(file_path, "smms", <<>>, "none",
               Met(exists, tooBig, net, data, TRUE, TRUE))

\* upload_image(file_path, method="imgbb", api_key=...)
CallImgBB(file_path, api_key, exists, net, data) ==
    UploadCall(file_path, "imgbb", api_key, "none",
               Met(exists, FALSE, net, data, TRUE, TRUE))

\* upload_image(file_path, method="cos", cos_config=...)
CallCos(file_path, cos_config, exists, sdk, putOk) ==
    UploadCall(file_path, "cos", <<>>, cos_config,
               Met(exists, FALSE, "ok", NoJson, sdk, putOk))

\* upload_image(file_path, method=<anything else>)
CallOtherMethod(file_path) ==
    UploadCall(file_path, "ftp", <<>>, "none",
               Met(TRUE, FALSE, "ok", NoJson, TRUE, TRUE))

\* the caller has its answer
UploadDone ==
    /\ up # <<>>
    /\ up' = <<>>
    /\ UNCHANGED <<hunyuanVars, th, fr, tool, sv>>

UploadNext ==
    \/ /\ up = <<>>
       /\ \E file_path \in LocalEntries, exists \in BOOLEAN, tooBig \in BOOLEAN,
             net \in NetOutcomes, data \in SmMsJson :
              CallSmMs(file_path, exists, tooBig, net, data)
    \/ /\ up = <<>>
       /\ \E file_path \in LocalEntries, api_key \in ApiKeys, exists \in BOOLEAN,
             net \in NetOutcomes, data \in ImgBBJson :
              CallImgBB(file_path, api_key, exists, net, data)
    \/ /\ up = <<>>
       /\ \E file_path \in LocalEntries, cos_config \in CosConfigs,
             exists \in BOOLEAN, sdk \in BOOLEAN, putOk \in BOOLEAN :
              CallCos(file_path, cos_config, exists, sdk, putOk)
    \/ /\ up = <<>>
       /\ \E file_path \in LocalEntries : CallOtherMethod(file_path)
    \/ UploadDone

UploadSpec == Init /\ [][UploadNext]_vars

\* ------------------------------------------------------- MyFileReadTool
\* a file is the sequence of its lines
RECURSIVE SeqsUpTo(_, _)
SeqsUpTo(S, n) ==
    IF n = 0 THEN {<<>>}
    ELSE LET shorter == SeqsUpTo(S, n - 1) IN
         shorter \cup { Append(q, x) : q \in {r \in shorter : Len(r) = n - 1}, x \in S }

Files == SeqsUpTo({"x", "y"}, MaxLines)

\* start_line and line_count as the caller gives them: None or a number
StartLines == {<<>>} \cup { <<n>> : n \in 0..(MaxLines + 1) }
LineCounts == {<<>>} \cup { <<n>> : n \in 0..MaxLines }

\* what open() does
OpenOutcomes == {"ok", "not_found", "permission", "other"}

\* bool(s) of a string
Truthy(s) == s # ""

\* line_count = int(line_count) if line_count is not None and not "None"
\*              else None
ParseLineCount(line_count) ==
    IF line_count # <<>> /\ ~Truthy("None") THEN line_count ELSE <<>>

\* start_line = int(start_line) if start_line is not None else 1
ParseStartLine(start_line) == IF start_line = <<>> THEN 1 ELSE start_line[1]

Max(a, b) == IF a >= b THEN a ELSE b

\* the lines of file whose 0-based index k satisfies
\* k >= start_idx and (line_count is None or k < start_idx + line_count)
RECURSIVE SelectLines(_, _, _, _)
SelectLines(file, k, start_idx, line_count) ==
    IF k >= Len(file) THEN <<>>
    ELSE (IF k >= start_idx /\ (line_count = <<>> \/ k < start_idx + line_count[1])
          THEN <<file[k + 1]>> ELSE <<>>)
         \o SelectLines(file, k + 1, start_idx, line_count)

\* a failure answered with an empty text
ReadErrorAsText(error) == [kind |-> "text", lines |-> <<>>, error |-> ""]

ReadText(lines) == [kind |-> "text", lines |-> lines, error |-> ""]
ReadError(error) == [kind |-> "error", lines |-> <<>>, error |-> error]

\* MyFileReadTool._run: has_path says whether a path is given or set on the
\* tool
ReadRun(has_path, opened, file, start_line, line_count) ==
    LET sl == ParseStartLine(start_line)
        lc == ParseLineCount(line_count)
        start_idx == Max(sl - 1, 0)
        selected_lines == SelectLines(file, 0, start_idx, lc)
    IN  IF ~has_path THEN ReadError("no-file-path")
        ELSE IF opened = "not_found" THEN ReadError("file-not-found")
        ELSE IF opened = "permission" THEN ReadError("permission-denied")
        ELSE IF opened = "other" THEN ReadError("failed-to-read")
        ELSE IF sl = 1 /\ lc = <<>> THEN ReadText(file)
        ELSE IF selected_lines = <<>> /\ start_idx > 0 THEN ReadError("start-line-exceeds")
        ELSE ReadText(selected_lines)

\* an agent runs the tool
ReadCall(has_path, opened, file, start_line, line_count) ==
    /\ fr = <<>>
    /\ fr' = <<[has_path |-> has_path, opened |-> opened, file |-> file,
                start_line |-> start_line, line_count |-> line_count,
                out |-> ReadRun(has_path, opened, file, start_line, line_count)]>>
    /\ UNCHANGED <<hunyuanVars, up, th, tool, sv>>

\* the agent has its answer
ReadDone ==
    /\ fr # <<>>
    /\ fr' = <<>>
    /\ UNCHANGED <<hunyuanVars, up, th, tool, sv>>

ReadNext ==
    \/ /\ fr = <<>>
       /\ \E has_path \in BOOLEAN, opened \in OpenOutcomes, file \in Files,
             start_line \in StartLines, line_count \in LineCounts :
              ReadCall(has_path, opened, file, start_line, line_count)
    \/ ReadDone

ReadSpec == Init /\ [][ReadNext]_vars

\* ----------------------------------------------------- HunyuanImageTool
\* the image URLs of a completed job, and the filenames in saved_images: a
\* plain name or an absolute path
ResultUrls == SeqsUpTo({<<"u1">>, <<"u2">>}, MaxItems)
Filenames == { <<"a">>, <<"b">>, <<"/", "t">> }
SavedImages == {<<>>} \cup { <<names>> : names \in SeqsUpTo(Filenames, MaxItems) }

\* what HunyuanImageClient.generate_image gives the tool: a completed result,
\* or an exception
Generations ==
    { [kind |-> "return", status_code |-> "5", image_urls |-> urls, error |-> ""] :
          urls \in ResultUrls }
    \cup { [kind |-> "raise", status_code |-> "", image_urls |-> <<>>, error |-> e] :
              e \in {"job-failed", "wait-timeout"} }

\* zip over one pair only
ZipFirst(urls, names) ==
    IF urls = <<>> \/ names = <<>> THEN <<>> ELSE << <<urls[1], names[1]>> >>

\* zip(result.image_urls, saved_images)
Zip(urls, names) ==
    [j \in 1..(IF Len(urls) <= Len(names) THEN Len(urls) ELSE Len(names)) |->
        <<urls[j], names[j]>>]

OutputDir == <<"generated_images">>

\* output_dir / filename: an absolute filename replaces the directory
PathJoin(dir, filename) ==
    IF filename # <<>> /\ filename[1] = "/" THEN filename
    ELSE dir \o <<"/">> \o filename

\* "\n".join(items)
RECURSIVE JoinLines(_)
JoinLines(items) ==
    IF items = <<>> THEN <<>>
    ELSE IF Len(items) = 1 THEN items[1]
    ELSE items[1] \o <<"\n">> \o JoinLines(Tail(items))

\* what a run leaves behind: the text it returns and the image files it wrote
ToolOut(kind, text, files) == [kind |-> kind, text |-> text, files |-> files]

\* where the loop body of a pair may raise: at the download, before the
\* image is written, or at the prompt file, after it
FailStages == {"download", "prompt"}

\* HunyuanImageTool._run after its arguments are read: gen is what
\* generate_image gave, fail the number of the first pair at which the loop
\* body raises (0: at none), stage where it does
ToolRun(gen, saved_images, fail, stage) ==
    LET names == IF saved_images = <<>> THEN <<>> ELSE saved_images[1] IN
    IF gen.kind = "raise"
    THEN ToolOut("error", <<"Image generation error: ", gen.error>>, <<>>)
    ELSE IF gen.status_code = "4"
    THEN ToolOut("failed", <<"Image generation failed: ", gen.error>>, <<>>)
    ELSE IF gen.image_urls # <<>>
    THEN IF names # <<>>
         THEN LET pairs == Zip(gen.image_urls, names)
                  paths == [j \in 1..Len(pairs) |-> PathJoin(OutputDir, pairs[j][2])]
              IN  IF fail \in 1..Len(pairs)
                  THEN ToolOut("error", <<"Image generation error: ", stage>>,
                               SubSeq(paths, 1, IF stage = "download"
                                                THEN fail - 1 ELSE fail))
                  ELSE ToolOut("paths", JoinLines(paths), paths)
         ELSE ToolOut("urls", JoinLines(gen.image_urls), <<>>)
    ELSE ToolOut("none", <<"Image generation completed but no image URLs were returned.">>, <<>>)

\* an agent runs the tool
ToolCall(gen, saved_images, fail, stage) ==
    /\ tool = <<>>
    /\ tool' = <<[gen |-> gen, saved_images |-> saved_images, fail |-> fail,
                  stage |-> stage,
                  out |-> ToolRun(gen, saved_images, fail, stage)]>>
    /\ UNCHANGED <<hunyuanVars, up, th, fr, sv>>

\* the agent has its answer
ToolDone ==
    /\ tool # <<>>
    /\ tool' = <<>>
    /\ UNCHANGED <<hunyuanVars, up, th, fr, sv>>

ToolNext ==
    \/ /\ tool = <<>>
       /\ \E gen \in Generations, saved_images \in SavedImages, fail \in 0..MaxItems,
             stage \in FailStages :
              ToolCall(gen, saved_images, fail, stage)
    \/ ToolDone

ToolSpec == Init /\ [][ToolNext]_vars

\* -------------------------------------------------- save_image_from_url
\* the extension the data gave (jpeg is written jpg)
SaveExts == { <<"j", "p", "g">>, <<"p", "n", "g">> }

\* filename as the caller gives it: None or a name without extension
SaveFilenames == { <<>>, << <<"a">> >>, << <<"a", "_", "1">> >> }

\* datetime.now().strftime("%Y%m%d_%H%M%S")
Timestamp == <<"t">>

\* str(counter)
Digits == <<"1", "2", "3", "4", "5", "6", "7", "8", "9">>

\* f"{filename}.{ext}"; paths are taken relative to output_dir
BaseName(filename, ext) == filename \o <<".">> \o ext

\* f"{filename}_{counter}.{ext}"
NumberedName(filename, counter, ext) ==
    filename \o <<"_", Digits[counter]>> \o <<".">> \o ext

\* the names a file of output_dir can have
DirNames ==
    { BaseName(f, e) : f \in {Timestamp, <<"a">>, <<"a", "_", "1">>}, e \in SaveExts }
    \cup { NumberedName(<<"a">>, c, e) : c \in 1..MaxFiles, e \in SaveExts }
    \cup { NumberedName(<<"a", "_", "1">>, 1, e) : e \in SaveExts }

\* a search that takes every name for unused
PathExistsNever(files, filepath) == FALSE

\* os.path.exists(filepath)
PathExists(files, filepath) == filepath \in files

\* save_image_from_url up to the loop: the directory is there, the data is
\* decoded, filename defaults to the timestamp, the first path is formed
SaveCall(files, filename, ext) ==
    /\ sv = <<>>
    /\ LET name == IF filename = <<>> THEN Timestamp ELSE filename[1] IN
       sv' = <<[pc |-> "search", before |-> files, files |-> files,
                filename |-> name, ext |-> ext,
                filepath |-> BaseName(name, ext), counter |-> 1,
                overwrote |-> FALSE, returned |-> <<>>]>>
    /\ UNCHANGED <<hunyuanVars, up, th, fr, tool>>

\* one turn of the while loop: the path exists, the next one is formed
SaveSearch ==
    /\ sv # <<>>
    /\ sv[1].pc = "search"
    /\ PathExists(sv[1].files, sv[1].filepath)
    /\ sv' = <<[sv[1] EXCEPT
                  !.filepath = NumberedName(sv[1].filename, sv[1].counter, sv[1].ext),
                  !.counter = @ + 1]>>
    /\ UNCHANGED <<hunyuanVars, up, th, fr, tool>>

\* the loop is left: the file is opened for writing (an existing file is
\* truncated) and the path returned
SaveWrite ==
    /\ sv # <<>>
    /\ sv[1].pc = "search"
    /\ ~PathExists(sv[1].files, sv[1].filepath)
    /\ sv' = <<[sv[1] EXCEPT
                  !.pc = "done",
                  !.overwrote = sv[1].filepath \in sv[1].files,
                  !.files = @ \cup {sv[1].filepath},
                  !.returned = <<sv[1].filepath>>]>>
    /\ UNCHANGED <<hunyuanVars, up, th, fr, tool>>

\* the caller has the path
SaveDone ==
    /\ sv # <<>>
    /\ sv[1].pc = "done"
    /\ sv' = <<>>
    /\ UNCHANGED <<hunyuanVars, up, th, fr, tool>>

SaveNext ==
    \/ /\ sv = <<>>
       /\ \E files \in SUBSET DirNames, filename \in SaveFilenames, ext \in SaveExts :
              SaveCall(files, filename, ext)
    \/ SaveSearch
    \/ SaveWrite
    \/ SaveDone

\* a call that has begun runs on
SaveSpec == Init /\ [][SaveNext]_vars /\ WF_vars(SaveSearch \/ SaveWrite)

\* --------------------------- _upload_local_image, two threads, one client
\* what the threads' steps leave alone
threadFrame == <<calls, op, pc, images, processed, request, job_id, max_retries,
                 poll_interval, i, result, polls, sleeps, slept, pendings,
                 remote, resolved, outcome, ev, lastUpload, up, fr, tool, sv>>

\* a resolver that lets one thread at a time past the cache check
CheckGuardLocked(t) ==
    \A u \in Threads \ {t} : th[u].pc \notin {"missed", "uploaded"}

\* _upload_local_image takes no lock: a thread reaches the cache check
\* whatever the other threads are doing
CheckGuard(t) == TRUE

\* thread t calls _upload_local_image(img) and finds the path in the cache:
\* the cached URL is returned
ThreadHit(t, img) ==
    /\ th[t].pc = "idle"
    /\ th[t].n < MaxRequests
    /\ CheckGuard(t)
    /\ CacheKey(img) \in DOMAIN uploaded_urls
    /\ th' = [th EXCEPT ![t] = [@ EXCEPT !.pc = "returned", !.img = img,
                                         !.ret = <<uploaded_urls[CacheKey(img)]>>]]
    /\ UNCHANGED <<uploaded_urls, backendCalls, putCount, okUploads, threadFrame>>

\* thread t calls _upload_local_image(img) and does not find the path in the
\* cache
ThreadMiss(t, img) ==
    /\ th[t].pc = "idle"
    /\ th[t].n < MaxRequests
    /\ CheckGuard(t)
    /\ CacheKey(img) \notin DOMAIN uploaded_urls
    /\ th' = [th EXCEPT ![t] = [@ EXCEPT !.pc = "missed", !.img = img]]
    /\ UNCHANGED <<uploaded_urls, backendCalls, putCount, okUploads, threadFrame>>

\* thread t, past the cache check, calls upload_image and raises on a
\* rejected result
ThreadUpload(t, exists, sdk, putOk) ==
    /\ th[t].pc = "missed"
    /\ LET res == upload_image(th[t].img, exists, sdk, putOk, putCount + 1) IN
        /\ backendCalls' = [backendCalls EXCEPT ![PathResolve(th[t].img)] = @ + 1]
        /\ putCount' = IF res.success THEN putCount + 1 ELSE putCount
        /\ okUploads' = IF res.success
                        THEN [okUploads EXCEPT ![PathResolve(th[t].img)] = @ + 1]
                        ELSE okUploads
        /\ th' = [th EXCEPT ![t] =
                     [@ EXCEPT !.pc = IF UploadRejected(res) THEN "raised" ELSE "uploaded",
                               !.res = <<res>>]]
    /\ UNCHANGED <<uploaded_urls, threadFrame>>

\* thread t stores the URL under the path and returns it
ThreadStore(t) ==
    /\ th[t].pc = "uploaded"
    /\ uploaded_urls' = CacheStore(uploaded_urls, CacheKey(th[t].img),
                                   th[t].res[1].url[1])
    /\ th' = [th EXCEPT ![t] = [@ EXCEPT !.pc = "returned", !.ret = th[t].res[1].url]]
    /\ UNCHANGED <<backendCalls, putCount, okUploads, threadFrame>>

\* thread t's call is over
ThreadDone(t) ==
    /\ th[t].pc \in {"returned", "raised"}
    /\ th' = [th EXCEPT ![t] = IdleThread(th[t].n + 1)]
    /\ UNCHANGED <<uploaded_urls, backendCalls, putCount, okUploads, threadFrame>>

ThreadNext ==
    \/ \E t \in Threads, img \in LocalEntries : ThreadHit(t, img)
    \/ \E t \in Threads, img \in LocalEntries : ThreadMiss(t, img)
    \/ \E t \in Threads, exists \in BOOLEAN, sdk \in BOOLEAN, putOk \in BOOLEAN :
           ThreadUpload(t, exists, sdk, putOk)
    \/ \E t \in Threads : ThreadStore(t)
    \/ \E t \in Threads : ThreadDone(t)

ThreadSpec == Init /\ [][ThreadNext]_vars

\* ================================================================ claims
\* what the remote API said, read off its raw answers
RemoteText(opt) == IF opt = <<>> THEN "None" ELSE IF opt[1] = "" THEN "None" ELSE opt[1]
RemoteJobId == IF remote.submit = <<>> THEN ""
               ELSE IF remote.submit[1].JobId = <<>> THEN ""
               ELSE remote.submit[1].JobId[1]
LastRemoteStatus == IF remote.resp = <<>> THEN "no-response"
                    ELSE RemoteStatus(remote.resp[1])
InGenerateLoop == op = "generate" /\ pc \in {"poll", "done"} /\ remote.submit # <<>>
                  /\ remote.submit[1].ok

\* C1: when the remote first answers a poll of generate with status "5", no
\* earlier poll having been answered "4" or "5", generate returns that poll's
\* result: after k polls and k - 1 sleeps, k - 1 being the pending polls before
C1_CompletedIsReturned ==
    (InGenerateLoop /\ LastRemoteStatus = "5") =>
        /\ pc = "done"
        /\ outcome.kind = "return"
        /\ result # <<>>
        /\ outcome.result = result
        /\ result[1].status_code = "5"
        /\ result[1].job_id = RemoteJobId
        /\ polls = pendings + 1
        /\ sleeps = pendings
        /\ polls <= max_retries

\* the spec's example: [waiting, processing, completed] gives 3 polls, 2 sleeps
C1_Witness ==
    /\ InGenerateLoop /\ LastRemoteStatus = "5"
    /\ outcome.kind = "return"
    /\ polls = 3 /\ sleeps = 2 /\ pendings = 2

\* C2: with max_retries >= 1, once max_retries polls have all been answered
\* with a status that is neither "4" nor "5", generate polls no more and raises
\* the timeout, whose message is not the remote-failure message and names the
\* job identifier submit returned; exactly max_retries polls were made
C2_TimeoutNamesJob ==
    (InGenerateLoop /\ max_retries >= 1 /\ pendings >= max_retries) =>
        /\ polls = max_retries
        /\ pendings = max_retries
        /\ pc = "poll" => /\ ENABLED GenTimeout
                          /\ ~ENABLED (\E reply \in QueryReplies : GenPoll(reply))
        /\ pc = "done" => /\ outcome.kind = "raise"
                          /\ outcome.msg = <<"wait-timeout, JobId: ", RemoteJobId>>
                          /\ outcome.msg[1] # "job-failed: "

C2_Witness ==
    /\ InGenerateLoop /\ pc = "done"
    /\ max_retries = 3 /\ polls = 3 /\ pendings = 3
    /\ outcome.msg = <<"wait-timeout, JobId: ", "j1">>

\* C3: when the remote first answers a poll of generate with status "4", no
\* earlier poll having been answered "4" or "5", generate raises at that poll a
\* failure carrying the response's error code and message, without sleeping
\* after it and without polling again
C3_FailedAborts ==
    (InGenerateLoop /\ LastRemoteStatus = "4") =>
        /\ pc = "done"
        /\ outcome.kind = "raise"
        /\ outcome.msg = <<"job-failed: ", RemoteText(remote.resp[1].JobErrorCode),
                           " - ", RemoteText(remote.resp[1].JobErrorMsg)>>
        /\ polls = pendings + 1
        /\ sleeps = pendings

\* the spec's example: [processing, failed] aborts on the second poll
C3_Witness ==
    /\ InGenerateLoop /\ LastRemoteStatus = "4"
    /\ polls = 2 /\ sleeps = 1
    /\ outcome.msg = <<"job-failed: ", "E1", " - ", "boom">>

\* a resolution of a local path has just been made
LocalResolution == ev.kind \in {"hit", "uploaded", "failed"}

\* C4: once a canonical path has been resolved successfully on this client,
\* every later resolution of a path that canonicalizes to it is served from the
\* cache: the same URL, and no upload_image invocation
C4_Memoized ==
    (LocalResolution /\ ev.before # <<>>) =>
        /\ ev.kind = "hit"
        /\ ev.url = ev.before
        /\ ev.backend = 0
        /\ PathResolve(ev.entry) \in DOMAIN uploaded_urls
        /\ uploaded_urls[PathResolve(ev.entry)] = ev.before[1]

\* "./a" is served from the cache after "a" was uploaded in the same call
C4_Witness ==
    /\ calls = 0
    /\ Len(images) >= 2
    /\ images[1] = <<"a">>
    /\ images[Len(images)] = <<".", "/", "a">>
    /\ ev.kind = "hit"
    /\ ev.before # <<>>
    /\ backendCalls[PathResolve(<<"a">>)] = 1

\* C5, as claimed: upload_image is invoked at most once per canonical path in
\* the client's lifetime, failed uploads included
C5_AtMostOneInvocation == \A p \in AbsPaths : backendCalls[p] <= 1

\* C5, amended: each canonical path is uploaded successfully at most once, and
\* upload_image is never invoked for a path that has been resolved successfully
\* before; a failed upload is not remembered
C5_AtMostOneSuccess ==
    /\ \A p \in AbsPaths :
        /\ okUploads[p] <= 1
        /\ okUploads[p] = 1 => resolved[p] # <<>>
    /\ (LocalResolution /\ ev.backend > 0) => ev.before = <<>>

\* a path whose first upload failed was uploaded by a later request, and is
\* now served from the cache
C5_Witness ==
    /\ \E p \in AbsPaths : backendCalls[p] = 2 /\ okUploads[p] = 1
    /\ ev.kind = "hit"

\* the entry begins with http:// or https://
UrlPrefixed(s) == StartsWith(s, HttpPrefix) \/ StartsWith(s, HttpsPrefix)

\* C6: an entry beginning with http:// or https:// is put in the request as
\* it is: upload_image is not invoked and the cache is left as it was
C6_UrlPassesThrough ==
    (ev.kind # "none" /\ UrlPrefixed(ev.entry)) =>
        /\ ev.kind = "url"
        /\ ev.url = <<ev.entry>>
        /\ ev.backend = 0
        /\ ev.cacheSame
        /\ processed # <<>>
        /\ processed[Len(processed)] = ev.entry

\* an https:// entry passes through a client whose cache holds an upload
C6_Witness ==
    /\ ev.kind = "url"
    /\ StartsWith(ev.entry, HttpsPrefix)
    /\ uploaded_urls # <<>>
    /\ Len(images) >= 2

\* C7, as claimed: a result of query_job with status "5" has a non-empty image
\* URL list, and one with status "4" has an error code or message
C7_StatusImpliesPayload ==
    result # <<>> =>
        /\ result[1].status_code = "5" => result[1].image_urls # <<>>
        /\ result[1].status_code = "4" =>
               (result[1].error_code # <<>> \/ result[1].error_msg # <<>>)

\* C7, amended: query_job hands on what the response carries and checks
\* nothing: a result with status "5" has a non-empty image URL list exactly
\* when the response's ResultImage is non-empty, and one with status "4" has an
\* error code (message) exactly when the response's JobErrorCode (JobErrorMsg)
\* is non-empty
C7_ResultMirrorsResponse ==
    (result # <<>> /\ remote.resp # <<>>) =>
        LET r == result[1]
            resp == remote.resp[1] IN
        /\ r.job_id = job_id
        /\ r.status_code = RemoteStatus(resp)
        /\ r.image_urls = (IF resp.ResultImage = <<>> THEN <<>> ELSE resp.ResultImage[1])
        /\ (r.image_urls # <<>>) <=>
               (resp.ResultImage # <<>> /\ resp.ResultImage # << <<>> >>)
        /\ (r.error_code # <<>>) <=>
               (resp.JobErrorCode # <<>> /\ resp.JobErrorCode # <<"">>)
        /\ r.error_code # <<>> => r.error_code = resp.JobErrorCode
        /\ (r.error_msg # <<>>) <=>
               (resp.JobErrorMsg # <<>> /\ resp.JobErrorMsg # <<"">>)
        /\ r.error_msg # <<>> => r.error_msg = resp.JobErrorMsg

\* query_job returns a completed result with the two image URLs of the response
C7_Witness ==
    /\ op = "query"
    /\ result # <<>>
    /\ result[1].status_code = "5"
    /\ result[1].image_urls = <<"img1", "img2">>

\* C8: a poll of generate answered with any status code other than "4" and "5"
\* counts as pending: generate neither returns nor raises the remote failure on
\* it, it sleeps poll_interval after it, and it polls again while attempts
\* remain
C8_OtherCodesPending ==
    (InGenerateLoop /\ LastRemoteStatus \notin {"4", "5", "no-response"}) =>
        /\ outcome.kind # "return"
        /\ outcome.kind = "raise" =>
               /\ outcome.msg = <<"wait-timeout, JobId: ", RemoteJobId>>
               /\ polls >= max_retries
        /\ polls = pendings
        /\ sleeps = pendings
        /\ slept = pendings * poll_interval
        /\ i = pendings
        /\ (pc = "poll" /\ polls < max_retries) =>
               /\ ENABLED (\E reply \in QueryReplies : GenPoll(reply))
               /\ ~ENABLED GenTimeout

\* the unspecified code "3" has been slept on twice and is polled again
C8_Witness ==
    /\ InGenerateLoop /\ pc = "poll"
    /\ LastRemoteStatus = "3"
    /\ sleeps = 2 /\ slept = 2 * poll_interval /\ poll_interval = 2
    /\ polls < max_retries

\* the URL an entry stands for: itself, or the URL its path resolved to
ExpectedImage(e) == IF UrlPrefixed(e) THEN <<e>> ELSE resolved[PathResolve(e)]

\* C9: the image list of the request has the length of the input, and its
\* j-th element is the j-th entry itself if that is a URL, else the URL the
\* entry's path resolved to; without images the request carries no list
C9_OrderPreserved ==
    request # <<>> =>
        IF images = <<>> THEN request[1].Images = <<>>
        ELSE /\ request[1].Images # <<>>
             /\ Len(request[1].Images[1]) = Len(images)
             /\ \A j \in 1..Len(images) :
                    <<request[1].Images[1][j]>> = ExpectedImage(images[j])

\* a request made from two uploads, a URL and a cache hit, in that order
C9_Witness ==
    /\ request # <<>>
    /\ images = << <<"b">>, HttpPrefix \o <<"u">>, <<".", "/", "a">>, <<"a">> >>
    /\ okUploads[PathResolve(<<"a">>)] = 1
    /\ okUploads[PathResolve(<<"b">>)] = 1
    /\ calls = 0

\* C10: submit_job does not check the number of images: a list longer than
\* the documented limit is sent in full, and when the remote API rejects the
\* request submit_job raises the submission failure with the API's code and
\* message and returns no job identifier
C10_NoLocalLimit ==
    /\ (pc = "resolve" /\ Len(images) > DocumentedMaxImages) =>
           ENABLED (\E reply \in SubmitReplies : SendSubmit(reply))
    /\ (request # <<>> /\ Len(images) > DocumentedMaxImages) =>
           /\ request[1].Images # <<>>
           /\ Len(request[1].Images[1]) = Len(images)
           /\ ~remote.submit[1].ok =>
                  /\ pc = "done"
                  /\ outcome = Raised(<<"submit-failed: ",
                                        remote.submit[1].err[1].code, " - ",
                                        remote.submit[1].err[1].message>>)
                  /\ outcome.job = <<>>

\* four images were sent and the remote API's rejection was raised
C10_Witness ==
    /\ Len(images) = 4
    /\ request # <<>>
    /\ Len(request[1].Images[1]) = 4
    /\ outcome.msg = <<"submit-failed: ", "LimitExceeded", " - ", "too many images">>

\* ------------------------------------------------------------------ C11
\* an Optional text that is neither None nor the empty string
Present(opt) == opt # <<>> /\ opt # << <<>> >>

\* C11: every UploadResult a call of upload_image returns, whichever uploader
\* built it, has a URL when success is true, and an error and no URL when
\* success is false
C11_UploadResultInvariant ==
    (up # <<>> /\ up[1].out.kind = "result") =>
        LET res == up[1].out.res IN
        /\ res.success => Present(res.url)
        /\ ~res.success => (Present(res.error) /\ res.url = <<>>)


\* ------------------------------------------------------------------ C12
\* the text of a raised upload failure: the fixed prefix, then the error of
\* the UploadResult
CarriesBackendError(res) == outcome.msg = <<"upload-failed: ">> \o res.error[1]

\* C12: when the file of a local path does not exist, or the upload backend
\* returns a non-success result, the resolver has invoked the backend exactly
\* once for that request and has raised a failure whose message carries the
\* backend's error
C12_FailsAfterOneInvocation ==
    (lastUpload # <<>> /\ (~lastUpload[1].exists \/ ~lastUpload[1].res.success)) =>
        /\ ev.kind = "failed"
        /\ backendCalls[PathResolve(ev.entry)] = lastUpload[1].before + 1
        /\ ev.backend = 1
        /\ pc = "done"
        /\ outcome.kind = "raise"
        /\ Present(lastUpload[1].res.error)
        /\ CarriesBackendError(lastUpload[1].res)

\* a missing file has made a submit call fail after one invocation, on a
\* client that had uploaded another path before
C12_Witness ==
    /\ lastUpload # <<>>
    /\ ~lastUpload[1].exists
    /\ lastUpload[1].sdk
    /\ ev.kind = "failed"
    /\ outcome.msg = <<"upload-failed: ">> \o ErrMissing(ev.entry)
    /\ backendCalls[PathResolve(ev.entry)] = 1
    /\ uploaded_urls # <<>>

\* ------------------------------------------------------------------ C13
\* C13, as stated: an upload that fails is reported to the resolver's caller
\* as a failure result, never by raising
C13_FailureIsNotRaised ==
    (lastUpload # <<>> /\ ~lastUpload[1].res.success) => outcome.kind # "raise"

\* C13, as the code has it: upload_image reports a missing file, a missing
\* SDK and a failed transfer as an UploadResult whose success flag is false,
\* with an error and no URL; _upload_local_image branches on that flag and
\* raises, which ends submit_job before any request is sent and leaves the
\* cache without an entry for the path
C13_TypedResultThenRaise ==
    /\ (lastUpload # <<>> /\ ( \/ ~lastUpload[1].exists
                                \/ ~lastUpload[1].sdk
                                \/ ~lastUpload[1].putOk )) =>
           /\ ~lastUpload[1].res.success
           /\ lastUpload[1].res.url = <<>>
           /\ Present(lastUpload[1].res.error)
           /\ ev.kind = "failed"
           /\ outcome.kind = "raise"
           /\ outcome.msg[1] = "upload-failed: "
           /\ pc = "done"
           /\ request = <<>>
           /\ CacheKey(ev.entry) \notin DOMAIN uploaded_urls
    /\ (lastUpload # <<>> /\ lastUpload[1].exists /\ lastUpload[1].sdk
                          /\ lastUpload[1].putOk) =>
           /\ lastUpload[1].res.success
           /\ outcome.msg = <<>> \/ outcome.msg[1] # "upload-failed: "

\* a failed transfer of an existing file has been raised out of a generate
\* call
C13_Witness ==
    /\ lastUpload # <<>>
    /\ lastUpload[1].exists /\ lastUpload[1].sdk /\ ~lastUpload[1].putOk
    /\ lastUpload[1].res = UploadResult(FALSE, <<>>, <<ErrPut>>)
    /\ op = "generate"
    /\ outcome.kind = "raise"

\* ------------------------------------------------------------------ C14
\* C14: when the submission meets an error of the transport or of the remote
\* API, submit ends by raising a failure whose message carries the error's
\* code and message; no job identifier is returned and nothing is polled
C14_SubmitErrorSurfaced ==
    (remote.submit # <<>> /\ ~remote.submit[1].ok) =>
        LET e == remote.submit[1].err[1] IN
        /\ pc = "done"
        /\ outcome.kind = "raise"
        /\ outcome.msg = <<"submit-failed: ", e.code, " - ", e.message>>
        /\ outcome.job = <<>>
        /\ job_id = ""
        /\ result = <<>>
        /\ polls = 0

\* a network error has ended a generate call with two reference images at
\* its submission
C14_Witness ==
    /\ op = "generate"
    /\ Len(images) = 2
    /\ remote.submit # <<>>
    /\ ~remote.submit[1].ok
    /\ remote.submit[1].err[1].code = "ClientNetworkError"
    /\ outcome.msg = <<"submit-failed: ", "ClientNetworkError", " - ", "timed out">>

\* ------------------------------------------------------------------ C15
\* C15: nothing is held across the cache check and the upload: while one
\* thread is between its cache miss for a path and its store, another thread
\* on the same client that asks for the same path passes the cache check too
C15_NoLockAcrossCheckAndUpload ==
    \A t \in Threads, u \in Threads, img \in LocalEntries :
        ( /\ t # u
          /\ th[t].pc \in {"missed", "uploaded"}
          /\ CacheKey(th[t].img) = CacheKey(img)
          /\ CacheKey(img) \notin DOMAIN uploaded_urls
          /\ th[u].pc = "idle"
          /\ th[u].n < MaxRequests ) => ENABLED ThreadMiss(u, img)

\* both threads have passed the cache check for one path before either
\* stored, and the backend has been invoked twice for it
C15_Witness ==
    /\ th[1].pc = "uploaded"
    /\ th[2].pc = "uploaded"
    /\ CacheKey(th[1].img) = CacheKey(th[2].img)
    /\ CacheKey(th[1].img) \notin DOMAIN uploaded_urls
    /\ backendCalls[CacheKey(th[1].img)] = 2
    /\ okUploads[CacheKey(th[1].img)] = 2
    /\ th[1].res[1].url # th[2].res[1].url

LateStore(t, k) ==
    /\ th[t].pc = "uploaded"
    /\ th'[t].pc = "returned"
    /\ CacheKey(th[t].img) = k
    /\ \E u \in Threads \ {t} : th[u].n > 0 \/ th[u].pc # "idle"

QueryFailureRaised(o) ==
    /\ o.kind = "raise"
    /\ \E e \in SdkErrors : o.msg = <<"query-failed: ", e.code, " - ", e.message>>

\* C17: a poll makes one status query and ends, returning the result or
\* raising a failure that carries the error's code and message; it changes
\* neither the upload cache nor the upload counts; inside generate a failed
\* query ends the call at once, with no sleep and no further poll
C17_PollOnceNoRetry ==
    /\ [][ /\ (pc = "idle" /\ op' = "query") =>
                 /\ polls' = 1
                 /\ pc' = "done"
                 /\ sleeps' = 0
                 /\ UNCHANGED clientVars
                 /\ \/ outcome'.kind = "return" /\ outcome'.result = result' /\ result' # <<>>
                    \/ QueryFailureRaised(outcome') /\ result' = <<>>
           /\ (pc = "poll" /\ polls' # polls) =>
                 /\ polls' = polls + 1
                 /\ UNCHANGED clientVars
                 /\ outcome'.kind = "raise" /\ outcome'.msg[1] = "query-failed: " =>
                        /\ QueryFailureRaised(outcome')
                        /\ pc' = "done"
                        /\ UNCHANGED <<sleeps, slept, i, result>>
         ]_vars
    /\ [](outcome.kind = "raise" => (pc = "done" /\ ~ENABLED (\E reply \in QueryReplies : GenPoll(reply))))

\* a generate call on a client with a cached upload has been ended by the
\* failure of its second status query
C17_Witness ==
    /\ op = "generate"
    /\ pc = "done"
    /\ outcome.msg = <<"query-failed: ", "ClientNetworkError", " - ", "timed out">>
    /\ polls = 2
    /\ sleeps = 1
    /\ uploaded_urls # <<>>

\* ------------------------------------------------------------------ C18
\* the ways a generate call ends
EndsCompleted ==
    /\ outcome.kind = "return"
    /\ outcome.result # <<>>
    /\ is_completed(outcome.result[1])
EndsRemoteFailed == outcome.kind = "raise" /\ outcome.msg[1] = "job-failed: "
EndsTimedOut == outcome.kind = "raise" /\ outcome.msg[1] = "wait-timeout, JobId: "
EndsPropagated ==
    /\ outcome.kind = "raise"
    /\ outcome.msg[1] \in {"upload-failed: ", "submit-failed: ", "query-failed: "}
EndCount ==
    Cardinality({ k \in {"completed", "failed", "timeout", "propagated"} :
                    \/ k = "completed" /\ EndsCompleted
                    \/ k = "failed" /\ EndsRemoteFailed
                    \/ k = "timeout" /\ EndsTimedOut
                    \/ k = "propagated" /\ EndsPropagated })

\* C18: whatever max_retries is and whatever the remote answers, a generate
\* call whose calls all return comes to an end; it ends in exactly one of:
\* the completed result returned, the remote failure raised, the timeout
\* raised, an error of submit or of a poll propagated; and it never makes
\* more than max_retries polls
C18_GenerateTerminates ==
    /\ (op = "generate" /\ pc # "done") ~> (op = "generate" /\ pc = "done")
    /\ []((op = "generate" /\ pc = "done") => EndCount = 1)
    /\ []((op = "generate" /\ pc # "done") => outcome.kind = "none")
    /\ []((op = "generate" /\ pc \in {"poll", "done"}) =>
            polls <= (IF max_retries < 0 THEN 0 ELSE max_retries))

\* a generate call given max_retries = MaxPolls has made all its polls, each
\* answered with a pending status, and has ended with the timeout
C18_Witness ==
    /\ op = "generate"
    /\ pc = "done"
    /\ EndsTimedOut
    /\ max_retries = MaxPolls
    /\ polls = MaxPolls
    /\ pendings = MaxPolls

\* ------------------------------------------------------------------ C19
Min(a, b) == IF a <= b THEN a ELSE b

\* C19: run on a readable file with start_line = s and line_count = n, where
\* line s exists, MyFileReadTool returns lines s to s+n-1 (as many of them as
\* the file has) and no line after them
C19_ReadsTheRange ==
    ( /\ fr # <<>>
      /\ fr[1].has_path
      /\ fr[1].opened = "ok"
      /\ fr[1].start_line # <<>>
      /\ fr[1].line_count # <<>>
      /\ fr[1].start_line[1] >= 1
      /\ fr[1].start_line[1] <= Len(fr[1].file)
      /\ fr[1].line_count[1] >= 1 ) =>
        LET s == fr[1].start_line[1]
            n == fr[1].line_count[1] IN
        fr[1].out = ReadText(SubSeq(fr[1].file, s, Min(s + n - 1, Len(fr[1].file))))

\* ------------------------------------------------------------------ C20
\* the run was given image URLs by the generation
YieldedUrls == tool # <<>> /\ tool[1].gen.kind = "return" /\ tool[1].gen.image_urls # <<>>
GivenNames == IF tool[1].saved_images = <<>> THEN <<>> ELSE tool[1].saved_images[1]
PairCount == Min(Len(tool[1].gen.image_urls), Len(GivenNames))

ToolGeneration(o) ==
    IF o.kind = "return"
    THEN [kind |-> "return", status_code |-> o.result[1].status_code,
          image_urls |-> [j \in 1..Len(o.result[1].image_urls) |->
                             <<o.result[1].image_urls[j]>>],
          error |-> ""]
    ELSE [kind |-> "raise", status_code |-> "", image_urls |-> <<>>, error |-> "raised"]

\* C23: a generate call that returns, returns a result whose status code is
\* "5"; when the remote answers "4" the call raises; so HunyuanImageTool._run
\* never takes its is_failed branch on what generate gave it
C23_ReturnsOnlyCompleted ==
    /\ (op = "generate" /\ outcome.kind = "return") =>
           /\ pc = "done"
           /\ outcome.result # <<>>
           /\ outcome.result[1].status_code = "5"
           /\ ~is_failed(outcome.result[1])
    /\ (op = "generate" /\ result # <<>> /\ is_failed(result[1])) =>
           /\ outcome.kind = "raise"
           /\ outcome.result = <<>>
    /\ (op = "generate" /\ pc = "done") =>
           \A saved_images \in {<<>>, << << <<"a">> >> >>} :
               ToolRun(ToolGeneration(outcome), saved_images, 0, "download").kind
                   # "failed"

\* generate has returned a completed result on its second poll, and the tool
\* given it returns its URLs
C23_Witness ==
    /\ op = "generate"
    /\ outcome.kind = "return"
    /\ polls = 2
    /\ outcome.result[1].image_urls = <<"img1", "img2">>
    /\ ToolRun(ToolGeneration(outcome), <<>>, 0, "download").kind = "urls"

\* ------------------------------------------------------------------ C24
\* the largest number of polls generate may make
PollCeiling == IF max_retries < 0 THEN 0 ELSE max_retries

\* C24: in generate every poll answered with a status that is neither "4" nor
\* "5" is followed by a sleep of poll_interval, the last permitted poll
\* included: when the timeout is raised the call has slept max_retries times,
\* as often as it has polled
C24_SleepAfterEveryPendingPoll ==
    /\ InGenerateLoop =>
           /\ sleeps = pendings
           /\ slept = sleeps * poll_interval
           /\ i = sleeps
    /\ (InGenerateLoop /\ pc = "done" /\ outcome.kind = "raise"
                       /\ outcome.msg[1] = "wait-timeout, JobId: ") =>
           /\ sleeps = PollCeiling
           /\ polls = PollCeiling
           /\ slept = PollCeiling * poll_interval

\* three polls, three sleeps of two seconds, then the timeout
C24_Witness ==
    /\ InGenerateLoop /\ pc = "done"
    /\ outcome.kind = "raise"
    /\ outcome.msg[1] = "wait-timeout, JobId: "
    /\ max_retries = 3 /\ poll_interval = 2
    /\ polls = 3 /\ sleeps = 3 /\ slept = 6

\* ------------------------------------------------------------------ C25
\* C25: a generate call given max_retries <= 0 submits the job, makes no
\* poll and no sleep, and raises the timeout naming the job identifier that
\* the submission returned; it submits no second time
C25_NoPollsStillSubmits ==
    (InGenerateLoop /\ max_retries <= 0) =>
        /\ remote.submit[1].ok
        /\ remote.resp = <<>>
        /\ polls = 0 /\ sleeps = 0 /\ slept = 0
        /\ result = <<>>
        /\ ~ENABLED (\E reply \in SubmitReplies : SendSubmit(reply))
        /\ pc = "poll" => /\ ENABLED GenTimeout
                          /\ ~ENABLED (\E reply \in QueryReplies : GenPoll(reply))
        /\ pc = "done" => outcome = Raised(<<"wait-timeout, JobId: ", RemoteJobId>>)

\* max_retries = -1: the job j1 was submitted with a reference image and the
\* timeout raised without a poll
C25_Witness ==
    /\ InGenerateLoop /\ pc = "done"
    /\ max_retries = -1
    /\ polls = 0
    /\ uploaded_urls # <<>>
    /\ outcome.msg = <<"wait-timeout, JobId: ", "j1">>

\* ------------------------------------------------------------------ C26
\* the resolution of the entry just read has failed
ResolutionFailed == ev.kind = "failed" /\ images # <<>>

\* C26: when the resolution of the i-th reference image fails, submit raises
\* without having sent a request to the remote API, reads no entry after the
\* i-th, and leaves in the cache the URL of every local entry before the
\* i-th, the URL that entry was given in the list being built
C26_FailureStopsSubmit ==
    ResolutionFailed =>
        /\ pc = "done"
        /\ outcome.kind = "raise"
        /\ outcome.msg[1] = "upload-failed: "
        /\ request = <<>>
        /\ remote = NoRemote
        /\ job_id = ""
        /\ ev.entry = images[Len(images)]
        /\ Len(processed) = Len(images) - 1
        /\ ~ENABLED (\E reply \in SubmitReplies : SendSubmit(reply))
        /\ \A img \in Entries :
               /\ ~ENABLED ResolveUrl(img)
               /\ ~ENABLED ResolveCached(img)
               /\ \A exists \in BOOLEAN, sdk \in BOOLEAN, putOk \in BOOLEAN :
                      ~ENABLED ResolveUpload(img, exists, sdk, putOk)
        /\ \A j \in 1..(Len(images) - 1) :
               ~_is_url(images[j]) =>
                   /\ CacheKey(images[j]) \in DOMAIN uploaded_urls
                   /\ uploaded_urls[CacheKey(images[j])] = processed[j]

\* the third entry failed after the first, a local path, was uploaded in this
\* call and the second, a URL, was passed through
C26_Witness ==
    /\ ResolutionFailed
    /\ Len(images) = 3
    /\ ~_is_url(images[1]) /\ _is_url(images[2])
    /\ calls = 0
    /\ Len(processed) = 2
    /\ DOMAIN uploaded_urls = {CacheKey(images[1])}
    /\ uploaded_urls[CacheKey(images[1])] = processed[1]

\* ------------------------------------------------------------------ C27
\* C27: a failed upload adds no entry for its path: the cache holds exactly
\* the paths that have been uploaded successfully, and at the failure it is
\* as it was; a later request for that path on the same client is not served
\* from the cache but invokes upload_image again
C27_FailureNotCached ==
    /\ DOMAIN uploaded_urls = { p \in AbsPaths : okUploads[p] > 0 }
    /\ ev.kind = "failed" =>
           /\ ev.cacheSame
           /\ ev.backend = 1
           /\ ev.before = <<>>
           /\ CacheKey(ev.entry) \notin DOMAIN uploaded_urls
    /\ \A img \in LocalEntries :
           ( /\ pc = "resolve"
             /\ Len(images) < MaxImages
             /\ backendCalls[PathResolve(img)] > okUploads[PathResolve(img)]
             /\ okUploads[PathResolve(img)] = 0 ) =>
               /\ ~ENABLED ResolveCached(img)
               /\ ENABLED ResolveUpload(img, TRUE, TRUE, TRUE)

\* the upload of a path failed in the first call; the second call has
\* invoked upload_image for the path again, and failed again
C27_Witness ==
    /\ calls = 1
    /\ ev.kind = "failed"
    /\ backendCalls[PathResolve(ev.entry)] = 2
    /\ okUploads[PathResolve(ev.entry)] = 0
    /\ uploaded_urls = <<>>

\* ------------------------------------------------------------------ C22
\* the start line asked for is after the first line and after the last one
StartBeyondEnd(r) ==
    /\ r.start_line # <<>>
    /\ r.start_line[1] > 1
    /\ r.start_line[1] > Len(r.file)

\* a returned message that begins with "Error:", by the failure it names
ErrorAnswer(label) == [kind |-> "error", lines |-> <<>>, error |-> label]

\* C22: MyFileReadTool._run answers each failure with a returned message that
\* begins with "Error:": no file path, file not found, permission denied, any
\* other read error, and a start line after the first that is beyond the last
\* line; in every other case it returns text
C22_FailuresAreReturned ==
    fr # <<>> =>
        LET r == fr[1] IN
        /\ r.out.kind \in {"error", "text"}
        /\ ~r.has_path => r.out = ErrorAnswer("no-file-path")
        /\ (r.has_path /\ r.opened = "not_found") => r.out = ErrorAnswer("file-not-found")
        /\ (r.has_path /\ r.opened = "permission") => r.out = ErrorAnswer("permission-denied")
        /\ (r.has_path /\ r.opened = "other") => r.out = ErrorAnswer("failed-to-read")
        /\ (r.has_path /\ r.opened = "ok" /\ StartBeyondEnd(r)) =>
               r.out = ErrorAnswer("start-line-exceeds")
        /\ (r.has_path /\ r.opened = "ok" /\ ~StartBeyondEnd(r)) => r.out.kind = "text"

\* line 4 was asked of a readable file of two lines
C22_Witness ==
    /\ fr # <<>>
    /\ fr[1].has_path
    /\ fr[1].opened = "ok"
    /\ Len(fr[1].file) = 2
    /\ fr[1].start_line = <<4>>
    /\ fr[1].out.kind = "error"
    /\ fr[1].out.error = "start-line-exceeds"

\* ------------------------------------------------------------------ C21
Saving == sv # <<>> /\ sv[1].pc = "search"
Saved == sv # <<>> /\ sv[1].pc = "done"

\* the names the search has formed: the first, then _1, _2, ...
TriedNames ==
    {BaseName(sv[1].filename, sv[1].ext)}
    \cup { NumberedName(sv[1].filename, c, sv[1].ext) : c \in 1..(sv[1].counter - 1) }

\* what holds while and after save_image_from_url runs
C21_Safe ==
    /\ Saving =>
           /\ sv[1].files = sv[1].before
           /\ sv[1].filepath \in TriedNames
           /\ (TriedNames \ {sv[1].filepath}) \subseteq sv[1].before
           /\ sv[1].counter <= Cardinality(sv[1].before) + 1
    /\ Saved =>
           /\ sv[1].returned = <<sv[1].filepath>>
           /\ sv[1].filepath \notin sv[1].before
           /\ ~sv[1].overwrote
           /\ sv[1].files = sv[1].before \cup {sv[1].filepath}
           /\ sv[1].filepath \in TriedNames
           /\ (TriedNames \ {sv[1].filepath}) \subseteq sv[1].before

\* C21: save_image_from_url never overwrites a file: whatever files
\* output_dir holds, the path it writes and returns was not there before the
\* call and every name tried before it (the plain one, then _1, _2, ...) was;
\* and the search for that path comes to an end
C21_NeverOverwrites == []C21_Safe /\ (Saving ~> Saved)

\* a.jpg and a_1.jpg were there: the image went to a_2.jpg
C21_Witness ==
    /\ Saved
    /\ sv[1].filename = <<"a">>
    /\ BaseName(<<"a">>, sv[1].ext) \in sv[1].before
    /\ NumberedName(<<"a">>, 1, sv[1].ext) \in sv[1].before
    /\ sv[1].returned = <<NumberedName(<<"a">>, 2, sv[1].ext)>>
    /\ sv[1].counter = 3

====
